---- MODULE Spec2Model ----
(***************************************************************************)
(* Model of python-agent/main.py: the heuristic engine heuristic_fix_all   *)
(* and the two request handlers fix_code (/api/fix) and analyze_code       *)
(* (/api/analyze) around the generative corrector.                         *)
(*                                                                         *)
(* A fragment (a Python str) is a sequence of tokens; every token is the   *)
(* literal text it stands for, so len() is the sum of the token lengths,   *)
(* == is equality of sequences, and the substring tests and replacements   *)
(* of the code are tests and replacements of tokens.  The token alphabet   *)
(* is uniquely decodable and no pattern the code searches for straddles a  *)
(* token boundary, so the token operations agree with the str operations   *)
(* on every fragment built from the alphabet.                              *)
(***************************************************************************)
EXTENDS Integers, Sequences, FiniteSets, TLC

\* ------------------------------------------------------------------ bounds

\* Length of the plain-text fragment ("xxxxxxxxxx") among the inputs.
TextLen == 10
\* The constant generators return "y" * n for every n in 0..MaxCandLen.
MaxCandLen == 21
\* How many times a client resubmits the fixedCode of the previous fix.
MaxResubmit == 2
\* How many times in succession the heuristic engine is applied (SpecHeur).
MaxApply == 3

\* ------------------------------------------------------------- the tokens

SP == " "
NL == "\n"
GT == ">"
VoidGT == "/>"
QuoteTok == "\""
PrefixTok == "fix wcag:"
RoleButtonTok == "role=\"button\""
RoleButtonSqTok == "role='button'"
AltEmptyTok == "alt=\"\""
ButtonOpenTok == "<button"
SkipText == "Skip to main content"

IsWs(t) == t \in {SP, NL}

TagNames == {"div", "header", "nav", "main", "footer", "aside", "button", "a", "img"}
VoidNames == {"img"}

OpenTok(name) == "<" \o name
CloseTok(name) == "</" \o name \o ">"
IsOpenTok(t) == \E n \in TagNames : OpenTok(n) = t
IsCloseTok(t) == \E n \in TagNames : CloseTok(n) = t
NameOfOpen(t) == CHOOSE n \in TagNames : OpenTok(n) = t
NameOfClose(t) == CHOOSE n \in TagNames : CloseTok(n) = t

RECURSIVE JoinSp(_)
JoinSp(v) ==
  IF v = <<>> THEN ""
  ELSE IF Len(v) = 1 THEN v[1]
  ELSE v[1] \o " " \o JoinSp(Tail(v))

\* An attribute is [key, val]; val is the list of its values (one value,
\* except for the multi-valued class attribute).
Attr(k, v) == [key |-> k, val |-> v]
RenderAttr(a) == a.key \o "=\"" \o JoinSp(a.val) \o "\""

ClassLists == {<<"header">>, <<"content">>, <<"main">>, <<"nav">>, <<"box">>,
               <<"header", "box">>, <<"content", "header">>, <<"skip-link">>}
Ids == {"main-content", "m"}
AttrUniverse ==
  {Attr("class", c) : c \in ClassLists}
    \cup {Attr("id", <<i>>) : i \in Ids}
    \cup {Attr("href", <<"#" \o i>>) : i \in Ids}
    \cup {Attr("role", <<"button">>), Attr("alt", <<"">>)}
IsAttrTok(t) == \E a \in AttrUniverse : RenderAttr(a) = t
AttrOf(t) == CHOOSE a \in AttrUniverse : RenderAttr(a) = t

\* ------------------------------------------------------- str operations

RECURSIVE StrLen(_)
StrLen(s) == IF s = <<>> THEN 0 ELSE Len(s[1]) + StrLen(Tail(s))

Contains(s, t) == \E i \in 1..Len(s) : s[i] = t
RemoveTok(s, t) == SelectSeq(s, LAMBDA u : u # t)

RECURSIVE Rep(_, _)
Rep(t, n) == IF n = 0 THEN <<>> ELSE <<t>> \o Rep(t, n - 1)

RECURSIVE LStrip(_)
LStrip(s) == IF s # <<>> /\ IsWs(s[1]) THEN LStrip(Tail(s)) ELSE s
RECURSIVE RStrip(_)
RStrip(s) ==
  IF s # <<>> /\ IsWs(s[Len(s)]) THEN RStrip(SubSeq(s, 1, Len(s) - 1)) ELSE s
Strip(s) == RStrip(LStrip(s))

\* " ".join(s.split())
RECURSIVE CollapseWs(_)
CollapseWs(s) ==
  IF s = <<>> THEN <<>>
  ELSE IF IsWs(s[1]) THEN <<SP>> \o CollapseWs(LStrip(s))
  ELSE <<s[1]>> \o CollapseWs(Tail(s))
normalize(s) == CollapseWs(Strip(s))

\* s.replace("<button >", "<button>")
RECURSIVE ReplaceButtonSpace(_)
ReplaceButtonSpace(s) ==
  IF s = <<>> THEN <<>>
  ELSE IF Len(s) >= 3 /\ s[1] = ButtonOpenTok /\ s[2] = SP /\ s[3] = GT
    THEN <<ButtonOpenTok, GT>> \o ReplaceButtonSpace(SubSeq(s, 4, Len(s)))
  ELSE <<s[1]>> \o ReplaceButtonSpace(Tail(s))

\* 'alt="""' in s
HasTripleAlt(s) == \E i \in 1..(Len(s) - 1) : s[i] = AltEmptyTok /\ s[i + 1] = QuoteTok
\* s.replace('alt="""', 'alt=""'): left to right, matches do not overlap
RECURSIVE ReplaceTripleAlt(_)
ReplaceTripleAlt(s) ==
  IF s = <<>> THEN <<>>
  ELSE IF Len(s) >= 2 /\ s[1] = AltEmptyTok /\ s[2] = QuoteTok
    THEN <<AltEmptyTok>> \o ReplaceTripleAlt(SubSeq(s, 3, Len(s)))
  ELSE <<s[1]>> \o ReplaceTripleAlt(Tail(s))

\* ----------------------------------------------- BeautifulSoup(code, ...)

\* The parsed document is the sequence of its nodes in document order: an
\* element is an "open" and a "close" event carrying the same node number,
\* a string is a "text" event.
OpenEv(name, attrs, node) ==
  [k |-> "open", name |-> name, attrs |-> attrs, node |-> node, toks |-> <<>>]
CloseEv(name, node) ==
  [k |-> "close", name |-> name, attrs |-> <<>>, node |-> node, toks |-> <<>>]
TextEv(toks) ==
  [k |-> "text", name |-> "", attrs |-> <<>>, node |-> 0, toks |-> toks]

IsTextTok(t) == ~IsOpenTok(t) /\ ~IsCloseTok(t)

\* first position >= i holding a ">" or "/>" (0: the tag never ends)
RECURSIVE TagEnd(_, _)
TagEnd(s, i) ==
  IF i > Len(s) THEN 0
  ELSE IF s[i] \in {GT, VoidGT} THEN i
  ELSE TagEnd(s, i + 1)

\* first position >= i that does not hold text
RECURSIVE TextEnd(_, _)
TextEnd(s, i) ==
  IF i > Len(s) \/ ~IsTextTok(s[i]) THEN i ELSE TextEnd(s, i + 1)

\* the attributes among the tokens of a start tag; anything else in the tag
\* (spaces, junk) is dropped by the tolerant parser
RECURSIVE TagAttrs(_)
TagAttrs(s) ==
  IF s = <<>> THEN <<>>
  ELSE IF IsAttrTok(s[1]) THEN <<AttrOf(s[1])>> \o TagAttrs(Tail(s))
  ELSE TagAttrs(Tail(s))

\* stack: the open elements, innermost first, as <<name, node>>
StackHas(stack, name) == \E i \in 1..Len(stack) : stack[i][1] = name
RECURSIVE PopTo(_, _)
\* the close events of the elements popped by an end tag, and the stack left
PopTo(stack, name) ==
  IF stack[1][1] = name
    THEN [evs |-> <<CloseEv(stack[1][1], stack[1][2])>>, rest |-> Tail(stack)]
  ELSE LET r == PopTo(Tail(stack), name)
       IN [evs |-> <<CloseEv(stack[1][1], stack[1][2])>> \o r.evs, rest |-> r.rest]

RECURSIVE CloseAll(_)
CloseAll(stack) ==
  IF stack = <<>> THEN <<>>
  ELSE <<CloseEv(stack[1][1], stack[1][2])>> \o CloseAll(Tail(stack))

RECURSIVE ParseFrom(_, _, _, _)
ParseFrom(s, i, stack, n) ==
  IF i > Len(s) THEN CloseAll(stack)
  ELSE IF IsOpenTok(s[i]) /\ TagEnd(s, i + 1) # 0 THEN
    LET j == TagEnd(s, i + 1)
        name == NameOfOpen(s[i])
        attrs == TagAttrs(SubSeq(s, i + 1, j - 1))
    IN IF name \in VoidNames
         THEN <<OpenEv(name, attrs, n + 1), CloseEv(name, n + 1)>>
                \o ParseFrom(s, j + 1, stack, n + 1)
         ELSE <<OpenEv(name, attrs, n + 1)>>
                \o ParseFrom(s, j + 1, <<<<name, n + 1>>>> \o stack, n + 1)
  ELSE IF IsCloseTok(s[i]) THEN
    LET name == NameOfClose(s[i])
    IN IF StackHas(stack, name)
         THEN LET r == PopTo(stack, name)
              IN r.evs \o ParseFrom(s, i + 1, r.rest, n)
         ELSE ParseFrom(s, i + 1, stack, n)
  ELSE
    LET j == TextEnd(s, i + 1)
    IN <<TextEv(SubSeq(s, i, j - 1))>> \o ParseFrom(s, j, stack, n)

Parse(code) == ParseFrom(code, 1, <<>>, 0)

\* ------------------------------------------------------- soup.prettify()

RenderOpen(e) ==
  LET RECURSIVE attrToks(_)
      attrToks(as) ==
        IF as = <<>> THEN <<>>
        ELSE <<SP, RenderAttr(as[1])>> \o attrToks(Tail(as))
  IN <<OpenTok(e.name)>> \o attrToks(e.attrs)
       \o <<IF e.name \in VoidNames THEN VoidGT ELSE GT>>

\* every tag and every non-blank string on a line of its own, indented by
\* one space per level of nesting
RECURSIVE PrettyFrom(_, _, _)
PrettyFrom(ev, i, depth) ==
  IF i > Len(ev) THEN <<>>
  ELSE LET e == ev[i] IN
    IF e.k = "open" THEN
      Rep(SP, depth) \o RenderOpen(e) \o <<NL>>
        \o PrettyFrom(ev, i + 1, IF e.name \in VoidNames THEN depth ELSE depth + 1)
    ELSE IF e.k = "close" THEN
      IF e.name \in VoidNames THEN PrettyFrom(ev, i + 1, depth)
      ELSE Rep(SP, depth - 1) \o <<CloseTok(e.name), NL>>
             \o PrettyFrom(ev, i + 1, depth - 1)
    ELSE IF Strip(e.toks) = <<>> THEN PrettyFrom(ev, i + 1, depth)
    ELSE Rep(SP, depth) \o Strip(e.toks) \o <<NL>> \o PrettyFrom(ev, i + 1, depth)

prettify(ev) == PrettyFrom(ev, 1, 0)

\* ------------------------------------------------------ heuristic_fix_all

\* class name -> new tag, in the order the dict is iterated
replacements ==
  << <<"header", "header">>, <<"nav", "nav">>, <<"content", "main">>,
     <<"main", "main">>, <<"footer", "footer">>, <<"sidebar", "aside">>,
     <<"aside", "aside">> >>

InSeq(x, v) == \E i \in 1..Len(v) : v[i] = x
HasAttr(e, key) == \E i \in 1..Len(e.attrs) : e.attrs[i].key = key
AttrIdx(e, key) == CHOOSE i \in 1..Len(e.attrs) : e.attrs[i].key = key
\* tag.get(key): the value list, <<>> when the attribute is absent
GetAttr(e, key) == IF HasAttr(e, key) THEN e.attrs[AttrIdx(e, key)].val ELSE <<>>

\* list.remove(x): the first occurrence only
RECURSIVE RemoveFirst(_, _)
RemoveFirst(v, x) ==
  IF v = <<>> THEN <<>>
  ELSE IF v[1] = x THEN Tail(v)
  ELSE <<v[1]>> \o RemoveFirst(Tail(v), x)

DelAttr(e, key) ==
  [e EXCEPT !.attrs = SelectSeq(e.attrs, LAMBDA a : a.key # key)]
\* tag[key] = val: in place when the attribute exists, appended otherwise
SetAttr(e, key, val) ==
  IF HasAttr(e, key)
    THEN [e EXCEPT !.attrs[AttrIdx(e, key)] = Attr(key, val)]
    ELSE [e EXCEPT !.attrs = Append(e.attrs, Attr(key, val))]

\* soup.find_all("div", class_=class_name)
MatchesDivClass(e, class_name) ==
  e.k = "open" /\ e.name = "div" /\ InSeq(class_name, GetAttr(e, "class"))

\* lines 31-37: rename the tag and drop the class that triggered it
RenameTag(e, class_name, new_tag) ==
  LET classes == RemoveFirst(GetAttr(e, "class"), class_name)
      renamed == [e EXCEPT !.name = new_tag]
  IN IF classes = <<>> THEN DelAttr(renamed, "class")
     ELSE SetAttr(renamed, "class", classes)

\* one turn of the outer loop (lines 29-38) over the whole document
RemapClass(ev, class_name, new_tag) ==
  LET hit == {ev[i].node : i \in {j \in 1..Len(ev) : MatchesDivClass(ev[j], class_name)}}
  IN [i \in 1..Len(ev) |->
        IF ev[i].k = "open" /\ ev[i].node \in hit
          THEN RenameTag(ev[i], class_name, new_tag)
        ELSE IF ev[i].k = "close" /\ ev[i].node \in hit
          THEN [ev[i] EXCEPT !.name = new_tag]
        ELSE ev[i]]

RECURSIVE RemapFrom(_, _)
RemapFrom(ev, r) ==
  IF r > Len(replacements) THEN ev
  ELSE RemapFrom(RemapClass(ev, replacements[r][1], replacements[r][2]), r + 1)

\* the tree after the semantic remapping (lines 18-38)
SemanticRemap(ev) == RemapFrom(ev, 1)
\* mutant of Find: the last such element instead of the first
FindLast(ev, name) ==
  LET S == {i \in 1..Len(ev) : ev[i].k = "open" /\ ev[i].name = name}
  IN IF S = {} THEN 0 ELSE CHOOSE i \in S : \A j \in S : j <= i

\* soup.find(name): index of the first such element in document order, 0 if none
Find(ev, name) ==
  LET S == {i \in 1..Len(ev) : ev[i].k = "open" /\ ev[i].name = name}
  IN IF S = {} THEN 0 ELSE CHOOSE i \in S : \A j \in S : i <= j

\* line 46: if header and main
SkipLinkApplies(ev) == Find(ev, "header") # 0 /\ Find(ev, "main") # 0

\* line 48: not main.get('id')
LacksId(e) == GetAttr(e, "id") = <<>> \/ GetAttr(e, "id") = <<"">>

\* mutant of HasSkip: the existing skip link is never found
HasSkipNever(ev, main_id) == FALSE

\* line 54: soup.find('a', href="#" + main_id)
HasSkip(ev, main_id) ==
  \E i \in 1..Len(ev) :
    ev[i].k = "open" /\ ev[i].name = "a" /\ GetAttr(ev[i], "href") = <<"#" \o main_id>>

MaxNode(ev) ==
  LET S == {ev[i].node : i \in 1..Len(ev)} \cup {0}
  IN CHOOSE n \in S : \A m \in S : m <= n

\* lines 58-60: soup.new_tag('a', href=...), .string, ['class']
NewSkipLink(main_id, node) ==
  << OpenEv("a", <<Attr("href", <<"#" \o main_id>>), Attr("class", <<"skip-link">>)>>, node),
     TextEv(<<SkipText>>),
     CloseEv("a", node) >>

\* header.insert(0, skip_link): right after the header's start tag
InsertAfter(ev, i, new) == SubSeq(ev, 1, i) \o new \o SubSeq(ev, i + 1, Len(ev))

\* lines 40-63 on the remapped tree: [ev, changed]
SkipLinkStage(ev) ==
  IF ~SkipLinkApplies(ev) THEN [ev |-> ev, changed |-> FALSE]
  ELSE
    LET h == Find(ev, "header")
        m == Find(ev, "main")
        idSet == LacksId(ev[m])
        ev1 == IF idSet THEN [ev EXCEPT ![m] = SetAttr(ev[m], "id", <<"main-content">>)]
               ELSE ev
        main_id == GetAttr(ev1[m], "id")[1]
        has_skip == HasSkip(ev1, main_id)
        ev2 == IF has_skip THEN ev1
               ELSE InsertAfter(ev1, h, NewSkipLink(main_id, MaxNode(ev1) + 1))
    IN [ev |-> ev2, changed |-> idSet \/ ~has_skip]

\* the tree heuristic_fix_all ends with, and its "changed" flag
HeuristicTree(code) ==
  LET soup == Parse(code)
      remapped == SemanticRemap(soup)
      skip == SkipLinkStage(remapped)
  IN [ev |-> skip.ev, changed |-> (remapped # soup) \/ skip.changed]

heuristic_fix_all(code) ==
  LET t == HeuristicTree(code)
  IN IF t.changed THEN prettify(t.ev) ELSE code

\* ------------------------------------------------------------ the inputs

\* <name attrs...>body</name>
El(name, attrs, body) ==
  LET RECURSIVE spaced(_)
      spaced(as) == IF as = <<>> THEN <<>> ELSE <<SP, as[1]>> \o spaced(Tail(as))
  IN <<OpenTok(name)>> \o spaced(attrs) \o <<GT>> \o body \o <<CloseTok(name)>>

A(k, v) == RenderAttr(Attr(k, v))

RoleButton == El("button", <<RoleButtonTok>>, <<"Go">>)
PlainButton == El("button", <<>>, <<"Go">>)

HeaderParts ==
  { <<>>,
    El("header", <<>>, <<>>),
    El("div", <<A("class", <<"header">>)>>, <<>>),
    El("header", <<>>, El("a", <<A("href", <<"#m">>)>>, <<"Go">>)),
    El("div", <<A("class", <<"header", "box">>)>>, RoleButton),
    El("header", <<>>, <<>>) \o El("header", <<A("class", <<"box">>)>>, <<>>) }

MainParts ==
  { <<>>,
    El("main", <<>>, <<>>),
    El("main", <<A("id", <<"m">>)>>, <<"Hi">>),
    El("div", <<A("class", <<"content">>)>>, <<"Hi">>),
    El("div", <<A("class", <<"content", "header">>)>>, <<"Hi">>),
    El("main", <<>>, <<>>) \o El("main", <<A("class", <<"box">>)>>, <<>>) }

\* <div class="header"><div class="content">Hi</div></div>
NestedDivs ==
  El("div", <<A("class", <<"header">>)>>, El("div", <<A("class", <<"content">>)>>, <<"Hi">>))
\* <img alt="""">
QuadAlt == <<OpenTok("img"), SP, AltEmptyTok, QuoteTok, QuoteTok, GT>>
PlainText == Rep("x", TextLen)

Inputs ==
  {h \o m : h \in HeaderParts, m \in MainParts}
    \cup {RoleButton, PlainButton, NestedDivs, QuadAlt, PlainText}

\* ------------------------------------------------------- the corrector

None == [kind |-> "none", out |-> <<>>]

\* What the text2text pipeline may be, as a deterministic function of its
\* prompt: it raises, it returns a fixed text, it echoes the prompt, or it
\* returns the fragment of the prompt unchanged.
Candidates ==
  {Rep("y", n) : n \in 0..MaxCandLen} \cup {RoleButton, PlainButton}
Generators ==
  {[kind |-> k, out |-> <<>>] : k \in {"raise", "echo", "copy"}}
    \cup {[kind |-> "const", out |-> c] : c \in Candidates}

\* calling it raises (calling None raises TypeError)
Raises(g) == g.kind \in {"raise", "none"}

\* "fix wcag: " + datos.code
Prompt(code) == <<PrefixTok, SP>> \o code

\* corrector(input_text, ...)[0]['generated_text']
Generate(g, input_text) ==
  CASE g.kind = "const" -> g.out
    [] g.kind = "echo" -> input_text
    [] g.kind = "copy" -> SubSeq(input_text, 3, Len(input_text))

\* ------------------------------------------------------------ the state

VARIABLES
  corrector,   \* the pipeline loaded at import, or None (lines 85-93)
  frag,        \* the fragment the client is working on
  op,          \* the handler running: "none", "fix", "analyze"
  pc,          \* where it is: "idle", "generate", "gate", "fallback", "legacy", "diff"
  code,        \* datos.code
  resub,       \* datos.code is the fixedCode the previous fix returned
  raw_fix,     \* raw_fix
  exc,         \* what the try block raised: "none", "generator", "ZeroDivisionError"
  ai_success,  \* ai_success
  work,        \* codigo_corregido (fix) or suggested_fix (analyze)
  calls,       \* this call: corrector invocations, heuristic_fix_all arguments, legacy fixups run
  response,    \* what the last call returned
  fixOut,      \* the last fix that returned a fixedCode
  anaOut,      \* the last analyze that ran its flow
  resubs       \* resubmissions so far

vars == <<corrector, frag, op, pc, code, resub, raw_fix, exc, ai_success, work,
          calls, response, fixOut, anaOut, resubs>>

NoCalls == [gen |-> 0, heur |-> <<>>, legacy |-> FALSE]
NoResponse == [kind |-> "none"]
NoOut == [done |-> FALSE]

Init ==
  /\ corrector \in {None} \cup Generators
  /\ frag \in Inputs
  /\ op = "none"
  /\ pc = "idle"
  /\ code = <<>>
  /\ resub = FALSE
  /\ raw_fix = <<>>
  /\ exc = "none"
  /\ ai_success = FALSE
  /\ work = <<>>
  /\ calls = NoCalls
  /\ response = NoResponse
  /\ fixOut = NoOut
  /\ anaOut = NoOut
  /\ resubs = 0

\* ------------------------------------------------------------ the handlers

\* mutant of ModelLoaded: the guard is missing
ModelLoadedAlways == TRUE

\* lines 101 and 159: if not corrector
ModelLoaded == corrector # None

\* line 128: 0.6 <= len(raw_fix) / len(datos.code) <= 2.0
InBandFix(c, raw) ==
  6 * StrLen(c) <= 10 * StrLen(raw) /\ StrLen(raw) <= 2 * StrLen(c)

\* line 183: 0.5 < len(raw_fix) / len(datos.code) < 2.0
InBandAnalyze(c, raw) ==
  5 * StrLen(c) < 10 * StrLen(raw) /\ StrLen(raw) < 2 * StrLen(c)

\* mutant of DivisionRaises: the empty original goes through the band test
DivisionNeverRaises(c) == FALSE

\* lines 127 and 181: the division raises ZeroDivisionError
DivisionRaises(c) == StrLen(c) = 0

\* lines 123-124 and 186-187: drop an echoed prefix
StartsWithPrefix(s) == s # <<>> /\ s[1] = PrefixTok
StripPrefix(s) ==
  IF StartsWithPrefix(s) THEN Strip(RemoveTok(s, PrefixTok)) ELSE s

\* mutant of NeedsHeuristic: an accepted no-op candidate is kept
NeedsHeuristicOnlyOnFailure(ai, w, c) == ~ai

\* lines 138 and 195: if not ai_success or <working> == datos.code
NeedsHeuristic(ai, w, c) == ~ai \/ w = c

\* lines 142-144: the redundant button-role fixup fires
ButtonFixupFires(c, w) ==
  Contains(w, RoleButtonTok) /\ Contains(c, ButtonOpenTok) /\ Contains(c, RoleButtonTok)

\* lines 145-147, on the string s
RemoveButtonRole(s) ==
  ReplaceButtonSpace(normalize(RemoveTok(RemoveTok(s, RoleButtonTok), RoleButtonSqTok)))

\* lines 142-147
LegacyButton(c, w) == IF ButtonFixupFires(c, w) THEN RemoveButtonRole(c) ELSE w

\* lines 150-151
LegacyAlt(w) == IF HasTripleAlt(w) THEN ReplaceTripleAlt(w) ELSE w

\* a request arrives: datos.code is the client's fragment, or the fixedCode
\* the previous fix returned
Requests ==
  {[code |-> frag, resub |-> FALSE]}
    \cup (IF fixOut.done /\ resubs < MaxResubmit
            THEN {[code |-> fixOut.fixed, resub |-> TRUE]} ELSE {})

Begin(o, r) ==
  /\ op' = o
  /\ code' = r.code
  /\ resub' = r.resub
  /\ resubs' = IF r.resub /\ o = "fix" THEN resubs + 1 ELSE resubs
  /\ raw_fix' = <<>>
  /\ exc' = "none"
  /\ ai_success' = FALSE
  /\ calls' = NoCalls
  /\ UNCHANGED <<corrector, frag, fixOut, anaOut>>

\* fix_code, lines 101-109
FixStart ==
  /\ pc = "idle"
  /\ \E r \in Requests :
       /\ Begin("fix", r)
       /\ IF ModelLoaded
            THEN /\ pc' = "generate"
                 /\ work' = r.code
                 /\ response' = NoResponse
            ELSE /\ pc' = "idle"
                 /\ work' = <<>>
                 /\ response' = [kind |-> "error", error |-> "Modelo no cargado"]

\* analyze_code, lines 159-167
AnalyzeStart ==
  /\ pc = "idle"
  /\ \E r \in Requests :
       /\ Begin("analyze", r)
       /\ IF ModelLoaded
            THEN /\ pc' = "generate"
                 /\ work' = r.code
                 /\ response' = NoResponse
            ELSE /\ pc' = "idle"
                 /\ work' = <<>>
                 /\ response' = [kind |-> "issues", issues |-> <<>>]

\* lines 112-120 and 170-178: the corrector is called; what it raises is
\* caught at lines 134 and 191
CallCorrector ==
  /\ pc = "generate"
  /\ calls' = [calls EXCEPT !.gen = @ + 1]
  /\ IF Raises(corrector)
       THEN /\ exc' = "generator"
            /\ pc' = "fallback"
            /\ UNCHANGED raw_fix
       ELSE /\ raw_fix' = Generate(corrector, Prompt(code))
            /\ pc' = "gate"
            /\ UNCHANGED exc
  /\ UNCHANGED <<corrector, frag, op, code, resub, ai_success, work, response,
                 fixOut, anaOut, resubs>>

\* fix_code, lines 122-135
FixGate ==
  /\ pc = "gate" /\ op = "fix"
  /\ LET stripped == StripPrefix(raw_fix) IN
       /\ raw_fix' = stripped
       /\ IF DivisionRaises(code)
            THEN /\ exc' = "ZeroDivisionError"
                 /\ UNCHANGED <<work, ai_success>>
            ELSE /\ UNCHANGED exc
                 /\ IF InBandFix(code, stripped)
                      THEN work' = stripped /\ ai_success' = TRUE
                      ELSE UNCHANGED <<work, ai_success>>
  /\ pc' = "fallback"
  /\ UNCHANGED <<corrector, frag, op, code, resub, calls, response, fixOut,
                 anaOut, resubs>>

\* analyze_code, lines 180-192
AnalyzeGate ==
  /\ pc = "gate" /\ op = "analyze"
  /\ IF DivisionRaises(code)
       THEN /\ exc' = "ZeroDivisionError"
            /\ UNCHANGED <<work, ai_success>>
       ELSE /\ UNCHANGED exc
            /\ IF InBandAnalyze(code, raw_fix)
                 THEN work' = StripPrefix(raw_fix) /\ ai_success' = TRUE
                 ELSE UNCHANGED <<work, ai_success>>
  /\ pc' = "fallback"
  /\ UNCHANGED <<corrector, frag, op, code, resub, raw_fix, calls, response,
                 fixOut, anaOut, resubs>>

\* lines 137-139 and 194-196
Fallback ==
  /\ pc = "fallback"
  /\ IF NeedsHeuristic(ai_success, work, code)
       THEN /\ work' = heuristic_fix_all(code)
            /\ calls' = [calls EXCEPT !.heur = Append(@, code)]
       ELSE UNCHANGED <<work, calls>>
  /\ pc' = IF op = "fix" THEN "legacy" ELSE "diff"
  /\ UNCHANGED <<corrector, frag, op, code, resub, raw_fix, exc, ai_success,
                 response, fixOut, anaOut, resubs>>

\* fix_code, lines 141-155
LegacyFixups ==
  /\ pc = "legacy"
  /\ LET fixed == LegacyAlt(LegacyButton(code, work)) IN
       /\ work' = fixed
       /\ response' = [kind |-> "fixedCode", fixedCode |-> fixed]
       /\ fixOut' = [done |-> TRUE, code |-> code, resub |-> resub,
                     ai |-> ai_success, working |-> work, fixed |-> fixed,
                     button |-> ButtonFixupFires(code, work)]
  /\ calls' = [calls EXCEPT !.legacy = TRUE]
  /\ pc' = "idle"
  /\ UNCHANGED <<corrector, frag, op, code, resub, raw_fix, exc, ai_success,
                 anaOut, resubs>>

\* analyze_code, lines 198-217
Diff ==
  /\ pc = "diff"
  /\ response' =
       [kind |-> "issues",
        issues |-> IF normalize(work) # normalize(code)
                     THEN << [ruleId |-> "ai-generative-improvement",
                              severity |-> "medium", type |-> "warning",
                              snippet |-> code, fixedCode |-> work] >>
                     ELSE <<>>]
  /\ anaOut' = [done |-> TRUE, code |-> code, ai |-> ai_success, suggested |-> work]
  /\ pc' = "idle"
  /\ UNCHANGED <<corrector, frag, op, code, resub, raw_fix, exc, ai_success,
                 work, calls, fixOut, resubs>>

Next ==
  \/ FixStart
  \/ AnalyzeStart
  \/ CallCorrector
  \/ FixGate
  \/ AnalyzeGate
  \/ Fallback
  \/ LegacyFixups
  \/ Diff

Spec == Init /\ [][Next]_vars

\* ------------------------------------- the heuristic engine on its own

\* heuristic_fix_all applied in succession, each time to its previous
\* output: code is the argument of the last application, work its result,
\* resubs the number of applications.
InitHeur ==
  /\ corrector = None
  /\ frag \in Inputs
  /\ op = "heuristic"
  /\ pc = "idle"
  /\ code = <<>>
  /\ resub = FALSE
  /\ raw_fix = <<>>
  /\ exc = "none"
  /\ ai_success = FALSE
  /\ work = frag
  /\ calls = NoCalls
  /\ response = NoResponse
  /\ fixOut = NoOut
  /\ anaOut = NoOut
  /\ resubs = 0

ApplyHeuristic ==
  /\ op = "heuristic"
  /\ resubs < MaxApply
  /\ code' = work
  /\ work' = heuristic_fix_all(work)
  /\ calls' = [calls EXCEPT !.heur = Append(@, work)]
  /\ resubs' = resubs + 1
  /\ UNCHANGED <<corrector, frag, op, pc, resub, raw_fix, exc, ai_success,
                 response, fixOut, anaOut>>

NextHeur == ApplyHeuristic

SpecHeur == InitHeur /\ [][NextHeur]_vars

\* ------------------------------------------------------------ the claims

\* the elements of a tree in document order, as [name, attrs]
ElemsOf(ev) ==
  LET opens == SelectSeq(ev, LAMBDA e : e.k = "open")
  IN [i \in 1..Len(opens) |-> [name |-> opens[i].name, attrs |-> opens[i].attrs]]
Elems(s) == ElemsOf(Parse(s))
CountName(es, name) == Cardinality({i \in 1..Len(es) : es[i].name = name})
FirstOf(es, name) ==
  LET S == {i \in 1..Len(es) : es[i].name = name}
  IN IF S = {} THEN 0 ELSE CHOOSE i \in S : \A j \in S : i <= j
IdOf(e) ==
  LET S == {i \in 1..Len(e.attrs) : e.attrs[i].key = "id"}
  IN IF S = {} THEN "" ELSE e.attrs[CHOOSE i \in S : TRUE].val[1]
Targets(e, id) ==
  e.name = "a" /\ \E i \in 1..Len(e.attrs) : e.attrs[i] = Attr("href", <<"#" \o id>>)
\* the candidate the quality gate judged in this call
Candidate == StripPrefix(raw_fix)
BadPattern(s) == Contains(s, ButtonOpenTok) /\ Contains(s, RoleButtonTok)
AfterFlow == op \in {"fix", "analyze"} /\ pc \in {"legacy", "diff"}

\* C1: in fix with the model loaded, the heuristic engine is invoked exactly
\* when the generator raised, the gate rejected the candidate (ratio outside
\* the band, or an empty original), or the accepted candidate equals the
\* original; it is then invoked once, on the original, and its result is the
\* working fragment; otherwise the working fragment entering the legacy
\* fixups is the accepted candidate.
C1_HeuristicExactlyOnNoUsableCandidate ==
  (op = "fix" /\ pc = "legacy") =>
    LET raised == corrector.kind = "raise"
        rejected == ~raised /\ (code = <<>> \/ ~InBandFix(code, Candidate))
        noop == ~raised /\ ~rejected /\ Candidate = code
        invoked == calls.heur # <<>>
    IN /\ invoked <=> (raised \/ rejected \/ noop)
       /\ invoked => calls.heur = <<code>> /\ work = heuristic_fix_all(code)
       /\ ~invoked => work = Candidate /\ work # code

\* C1 witness: an accepted candidate equal to the original sent the call to
\* the heuristic engine, which changed the original.
C1_Witness ==
  /\ op = "fix" /\ pc = "legacy"
  /\ ai_success /\ Candidate = code
  /\ calls.heur = <<code>> /\ work # code

\* C2 (as claimed): in fix and in analyze a candidate different from the
\* original whose ratio is exactly the lower or the upper bound of the
\* handler's band is accepted, and a candidate outside the band is rejected.
C2_BoundaryAccepted ==
  (op \in {"fix", "analyze"} /\ pc = "fallback" /\ exc = "none") =>
    LET r == StrLen(Candidate)
        c == StrLen(code)
        lo == IF op = "fix" THEN 6 ELSE 5
        atBound == 10 * r = lo * c \/ r = 2 * c
        outside == 10 * r < lo * c \/ r > 2 * c
    IN /\ (atBound /\ Candidate # code) => ai_success /\ work = Candidate
       /\ outside => ~ai_success /\ work = code

\* C3 (as claimed): with the generator a fixed deterministic function, fix
\* applied to the fixedCode a fix returned returns that same fixedCode.
C3_FixIdempotent ==
  (fixOut.done /\ fixOut.resub) => fixOut.fixed = fixOut.code

\* C4: with the model not loaded, fix returns the error result and no
\* fixedCode, analyze returns an empty issue list, and neither the
\* generator, the heuristic engine nor the legacy fixups run.
C4_UnavailableRunsNothing ==
  corrector = None =>
    /\ pc = "idle"
    /\ calls = NoCalls
    /\ ~fixOut.done /\ ~anaOut.done
    /\ op = "fix" => response = [kind |-> "error", error |-> "Modelo no cargado"]
    /\ op = "analyze" => response = [kind |-> "issues", issues |-> <<>>]

\* C4 witness: a fix call was answered with the error result.
C4_Witness ==
  corrector = None /\ op = "fix" /\ response.kind = "error"

\* C5: with the model loaded, when the generator raises or the original is
\* empty the candidate is never accepted, the heuristic engine runs on the
\* original, the call is always at a step of its own handler, and it ends
\* with a fixedCode (fix) or an issue list (analyze).
C5_FailuresFallThrough ==
  (corrector # None /\ op \in {"fix", "analyze"}
     /\ (corrector.kind = "raise" \/ code = <<>>)) =>
    /\ ~ai_success
    /\ pc \in {"idle", "generate", "gate", "fallback", IF op = "fix" THEN "legacy" ELSE "diff"}
    /\ AfterFlow => calls.heur = <<code>> /\ work = heuristic_fix_all(code)
    /\ pc = "idle" =>
         /\ response.kind = (IF op = "fix" THEN "fixedCode" ELSE "issues")
         /\ op = "fix" => fixOut.done /\ fixOut.code = code /\ ~fixOut.ai
         /\ op = "analyze" => anaOut.done /\ anaOut.code = code /\ ~anaOut.ai

\* C5 witness: a fix of the empty fragment, whose ratio cannot be computed,
\* ended with a fixedCode.
C5_Witness ==
  /\ corrector # None /\ op = "fix" /\ pc = "idle"
  /\ code = <<>> /\ exc = "ZeroDivisionError"
  /\ response.kind = "fixedCode"

\* C7 (as claimed): for the same original and the same generator, the
\* fragment analyze compares with the original equals the working fragment
\* fix holds right before its legacy fixups.
C7_SameInnerFlow ==
  (fixOut.done /\ anaOut.done /\ fixOut.code = anaOut.code) =>
    fixOut.working = anaOut.suggested

\* C8 (as claimed): when the button-role fixup fires, the fixedCode is the
\* working fragment with the role attribute removed (up to whitespace).
C8_FixupOnWorkingFragment ==
  (fixOut.done /\ fixOut.button) =>
    normalize(fixOut.fixed) = normalize(LegacyAlt(RemoveButtonRole(fixOut.working)))

\* C10 (as claimed): a candidate carrying a redundant role="button" on a
\* button is rejected even with its ratio inside the band, and the heuristic
\* engine runs on the original.
C10_BadPatternRejected ==
  (AfterFlow /\ exc = "none" /\ BadPattern(Candidate)) =>
    calls.heur = <<code>> /\ work = heuristic_fix_all(code)

\* the tree heuristic_fix_all had after the semantic remapping of its last
\* argument, and the tree of its result
Remapped == ElemsOf(SemanticRemap(Parse(code)))
Result == Elems(work)
Applied == op = "heuristic" /\ resubs > 0
Ambiguous == CountName(Remapped, "header") > 1 \/ CountName(Remapped, "main") > 1

\* C6: however many times the heuristic engine is applied in succession, the
\* tree holds at most one anchor more than the input, and an application to
\* a tree with a header and a main whose identifier an anchor already
\* targets inserts nothing.
C6_SkipLinkUnique ==
  Applied =>
    /\ CountName(Result, "a") <= CountName(Elems(frag), "a") + 1
    /\ LET m == FirstOf(Remapped, "main") IN
         (/\ FirstOf(Remapped, "header") # 0 /\ m # 0
          /\ IdOf(Remapped[m]) # ""
          /\ \E i \in 1..Len(Remapped) : Targets(Remapped[i], IdOf(Remapped[m])))
           => CountName(Result, "a") = CountName(Remapped, "a")

\* C6 witness: a fragment with one header and one main got its skip link in
\* the first application and was put through the engine again.
C6_Witness ==
  /\ Applied /\ resubs >= 2
  /\ CountName(Elems(frag), "header") = 1 /\ CountName(Elems(frag), "main") = 1
  /\ CountName(Result, "a") = CountName(Elems(frag), "a") + 1
  /\ \E i \in 1..Len(Remapped) : Targets(Remapped[i], IdOf(Remapped[FirstOf(Remapped, "main")]))

====
